---- MODULE Spec2Model ----
(***************************************************************************)
(* A model of the aftr lexer (src/lib.rs): the nom combinators             *)
(* that make up `token` and the driver `lexer`, run over every input of    *)
(* bounded length drawn from a small alphabet.  The combinators behave as  *)
(* in nom 7 (nom::number::complete::double is recognize_float, whose       *)
(* exponent digits are under cut, followed by the parse to f64).           *)
(*                                                                         *)
(* A character is a one-character string; a character outside ASCII is     *)
(* written by its code point ("U+00A0").  An input is a sequence of        *)
(* characters and a cursor is an offset: the number of characters already  *)
(* consumed, so the character under cursor i is input[i + 1].              *)
(***************************************************************************)
EXTENDS Integers, Sequences, FiniteSets, TLC

\* Longest input explored.
MaxLen == 3

\* The characters inputs are drawn from: one or two of every class the
\* rules of `token` tell apart.
Alphabet ==
    {"/", "\n", " ", "a", "e", "0", "1", "\"", "+", "-", "<", ".", "(", ")", "_",
     "U+00A0"}

VARIABLES
    input,   \* the &str handed to lexer
    pos,     \* the cursor of many1: the offset of the remaining input
    tokens,  \* the Vec<Token> many1 accumulates
    spans,   \* for each token, <<offset before, offset after>> of its match
    pc,      \* "many1" (in the loop), "eof" (many1 returned Ok), "done"
    result   \* lexer's return value

vars == <<input, pos, tokens, spans, pc, result>>

----------------------------------------------------------------------------
(* Character classes *)

AsciiLower ==
    {"a", "b", "c", "d", "e", "f", "g", "h", "i", "j", "k", "l", "m",
     "n", "o", "p", "q", "r", "s", "t", "u", "v", "w", "x", "y", "z"}

AsciiUpper ==
    {"A", "B", "C", "D", "E", "F", "G", "H", "I", "J", "K", "L", "M",
     "N", "O", "P", "Q", "R", "S", "T", "U", "V", "W", "X", "Y", "Z"}

AsciiDigit == {"0", "1", "2", "3", "4", "5", "6", "7", "8", "9"}

\* char::is_alphabetic: the ASCII letters and, of the rest of Unicode, the
\* letter of the tests (U+A66E).
is_alphabetic(c) == c \in AsciiLower \cup AsciiUpper \cup {"U+A66E"}

\* char::is_alphanumeric: alphabetic or numeric; U+00B2 (superscript two) is
\* numeric and no ASCII digit.
is_alphanumeric(c) == is_alphabetic(c) \/ c \in AsciiDigit \cup {"U+00B2"}

\* The characters of nom's digit1.
Digits == AsciiDigit

\* The characters of nom's multispace1: space, tab, carriage return, line feed.
Multispace == {" ", "\t", "\r", "\n"}

\* Every character of the model: the ASCII letters and digits, the ASCII
\* punctuation and white space the rules name, two characters no rule knows
\* ("-" but as a sign, "#"), and of the rest of Unicode a letter (U+A66E), a
\* numeric character that is no digit (U+00B2) and two white-space characters
\* (U+00A0, U+2003).
Chars ==
    AsciiLower \cup AsciiUpper \cup AsciiDigit \cup
    {"_", " ", "\t", "\r", "\n", "/", "\"", "+", "<", "=", ".", "-", "(", ")", "#",
     "U+A66E", "U+00B2", "U+00A0", "U+2003"}

\* A variant of OpChars: "/" taken for an operator character as well.
OpCharsWithSlash == {"+", "<", "=", ".", "/"}

\* The characters of one_of("+<=.").
OpChars == {"+", "<", "=", "."}

----------------------------------------------------------------------------
(* Parser results: nom's IResult.  Ok carries the offset of the remaining   *)
(* input and the output; Error is recoverable (alt tries the next           *)
(* alternative, many0/many1/opt stop); Failure (from cut) is not.           *)

Ok(end, out) == [res |-> "Ok", end |-> end, out |-> out]
Error == [res |-> "Error"]
Failure == [res |-> "Failure"]

\* The character under cursor i, "" at the end of the input.
At(s, i) == IF i < Len(s) THEN s[i + 1] ELSE ""

\* The slice s[i..j] by offsets.
Slice(s, i, j) == SubSeq(s, i + 1, j)

\* many0 of a one-character parser that accepts the characters of S: the
\* offset after the longest run of them from offset i.
many0(S, s, i) ==
    CHOOSE j \in i..Len(s) :
        /\ \A k \in (i + 1)..j : s[k] \in S
        /\ j = Len(s) \/ s[j + 1] \notin S

\* not_char(banned_char): the characters it accepts.
not_char(banned_char) == Chars \ {banned_char}

\* not_char('\n') and not_char('"')
not_newline == not_char("\n")
not_quote == not_char("\"")

\* A variant of unicode_alphabetic: satisfy(char::is_alphanumeric).
unicode_alphanumeric == {c \in Chars : is_alphanumeric(c)}

\* unicode_alphabetic: the characters it accepts.
unicode_alphabetic == {c \in Chars : is_alphabetic(c)}

\* word_character: the characters it accepts.
word_character == {c \in Chars : c = "_" \/ is_alphanumeric(c)}

----------------------------------------------------------------------------
(* The rules of `token`.  Each takes the input and a cursor and returns     *)
(* Ok(offset after the match, output) or Error; double may return Failure.  *)

\* A variant of opt_peek_newline: opt(newline), which consumes the newline.
opt_newline(s, b) == IF At(s, b) = "\n" THEN b + 1 ELSE b

\* opt(peek(newline)): looks at the character after the comment body and
\* consumes nothing, whether it is a newline or not.
opt_peek_newline(s, b) == b

\* A variant of line_comment: many1 for many0, a comment body of at least one
\* character.
line_comment_nonempty(s, i) ==
    IF At(s, i) = "/" /\ At(s, i + 1) = "/" /\ many0(not_newline, s, i + 2) > i + 2
    THEN LET b == many0(not_newline, s, i + 2)
         IN  Ok(b, Slice(s, i + 2, b))
    ELSE Error

\* delimited(tag("//"), recognize(many0(not_char('\n'))), opt(peek(newline)))
line_comment(s, i) ==
    IF At(s, i) = "/" /\ At(s, i + 1) = "/"
    THEN LET b == many0(not_newline, s, i + 2)
         IN  Ok(opt_peek_newline(s, b), Slice(s, i + 2, b))
    ELSE Error

\* recognize(tuple((unicode_alphabetic, many0(word_character))))
identifier(s, i) ==
    IF At(s, i) \in unicode_alphabetic
    THEN LET e == many0(word_character, s, i + 1)
         IN  Ok(e, Slice(s, i, e))
    ELSE Error

\* A variant of string: the closing quote optional, opt(char('"')).
string_unterminated(s, i) ==
    IF At(s, i) = "\""
    THEN LET b == many0(not_quote, s, i + 1)
         IN  Ok(IF At(s, b) = "\"" THEN b + 1 ELSE b, Slice(s, i + 1, b))
    ELSE Error

\* delimited(char('"'), recognize(many0(not_char('"'))), char('"'))
string(s, i) ==
    IF At(s, i) = "\""
    THEN LET b == many0(not_quote, s, i + 1)
         IN  IF At(s, b) = "\"" THEN Ok(b + 1, Slice(s, i + 1, b)) ELSE Error
    ELSE Error

\* many_m_n(min, max, ..) of a one-character parser that accepts the
\* characters of S: between min and max repetitions, as many as match.
many_m_n(min, max, S, s, i) ==
    LET run == many0(S, s, i)
        e   == IF run > i + max THEN i + max ELSE run
    IN  IF e - i < min THEN Error ELSE Ok(e, Slice(s, i, e))

\* A variant of operator: a single operator character, many_m_n(1, 1, ..).
operator_single(s, i) == many_m_n(1, 1, OpChars, s, i)

\* recognize(many_m_n(1, 2, one_of("+<=.")))
operator(s, i) == many_m_n(1, 2, OpChars, s, i)

\* A variant of multispace1: space1, one or more of space and tab.
space1(s, i) ==
    LET e == many0({" ", "\t"}, s, i)
    IN  IF e = i THEN Error ELSE Ok(e, Slice(s, i, e))

\* multispace1: one or more of space, tab, CR, LF.
multispace1(s, i) ==
    LET e == many0(Multispace, s, i)
    IN  IF e = i THEN Error ELSE Ok(e, Slice(s, i, e))

\* char(c)
char(c, s, i) == IF At(s, i) = c THEN Ok(i + 1, c) ELSE Error

----------------------------------------------------------------------------
(* nom's double: recognize_float, then the text parsed to an f64.  The      *)
(* value is kept exactly, as <<m, e>> standing for m * 10^e with m not      *)
(* divisible by 10 (<<0, 0>> for zero), so that two literals have the same  *)
(* record exactly when they denote the same number.  Every literal of the   *)
(* lengths explored is within the range of an f64.                          *)

DigitValue(c) ==
    CASE c = "0" -> 0 [] c = "1" -> 1 [] c = "2" -> 2 [] c = "3" -> 3
      [] c = "4" -> 4 [] c = "5" -> 5 [] c = "6" -> 6 [] c = "7" -> 7
      [] c = "8" -> 8 [] c = "9" -> 9

RECURSIVE DigitsValue(_)
DigitsValue(ds) ==
    IF ds = <<>> THEN 0
    ELSE 10 * DigitsValue(SubSeq(ds, 1, Len(ds) - 1)) + DigitValue(ds[Len(ds)])

RECURSIVE Normalize(_, _)
Normalize(m, e) ==
    IF m = 0 THEN <<0, 0>>
    ELSE IF m % 10 = 0 THEN Normalize(m \div 10, e + 1)
    ELSE <<m, e>>

double(s, i) ==
    LET \* opt(alt((char('+'), char('-'))))
        neg    == At(s, i) = "-"
        ms     == IF At(s, i) \in {"+", "-"} THEN i + 1 ELSE i
        \* alt(( (digit1, opt(pair(char('.'), opt(digit1)))), (char('.'), digit1) ))
        ie     == many0(Digits, s, ms)
        hasInt == ie > ms
        dot    == At(s, ie) = "."
        fs     == ie + 1
        fe     == IF dot THEN many0(Digits, s, fs) ELSE ie
        hasMan == hasInt \/ (dot /\ fe > fs)
        intDs  == Slice(s, ms, ie)
        fracDs == IF dot THEN Slice(s, fs, fe) ELSE <<>>
        \* opt(tuple((alt((char('e'), char('E'))), opt(sign), cut(digit1))))
        hasE   == At(s, fe) \in {"e", "E"}
        eneg   == At(s, fe + 1) = "-"
        es     == IF At(s, fe + 1) \in {"+", "-"} THEN fe + 2 ELSE fe + 1
        ee     == many0(Digits, s, es)
        exp    == IF hasE THEN (IF eneg THEN -1 ELSE 1) * DigitsValue(Slice(s, es, ee))
                  ELSE 0
        man    == (IF neg THEN -1 ELSE 1) * DigitsValue(intDs \o fracDs)
    IN  IF ~hasMan THEN Error
        ELSE IF hasE /\ ee = es THEN Failure
        ELSE Ok(IF hasE THEN ee ELSE fe, Normalize(man, exp - Len(fracDs)))

----------------------------------------------------------------------------
(* token: alt over the nine rules, in this order.  alt returns the first    *)
(* result that is not Error (an Ok or a Failure), and Error when every      *)
(* alternative returned Error.                                              *)

Text(kind, r) ==
    IF r.res = "Ok" THEN Ok(r.end, [kind |-> kind, text |-> r.out]) ELSE r

Number(r) ==
    IF r.res = "Ok" THEN Ok(r.end, [kind |-> "Number", value |-> r.out]) ELSE r

Unit(kind, r) ==
    IF r.res = "Ok" THEN Ok(r.end, [kind |-> kind]) ELSE r

Rules(s, i) ==
    << Text("LineComment", line_comment(s, i)),
       Text("Identifier", identifier(s, i)),
       Number(double(s, i)),
       Text("String", string(s, i)),
       Text("Operator", operator(s, i)),
       Text("Whitespace", multispace1(s, i)),
       Unit("BracketRoundClosing", char(")", s, i)),
       Unit("BracketRoundOpening", char("(", s, i)),
       Unit("Slash", char("/", s, i)) >>

\* The places of four of the rules in the order of alt.
LineCommentRule == 1
NumberRule == 3
OperatorRule == 5
SlashRule == 9

RuleCount == Len(Rules(<<>>, 0))

\* The alternatives that do not return Error at cursor i.
Applicable(s, i) == {k \in 1..RuleCount : Rules(s, i)[k].res # "Error"}

alt(rs) ==
    LET hits == {k \in 1..Len(rs) : rs[k].res # "Error"}
    IN  IF hits = {} THEN Error
        ELSE rs[CHOOSE k \in hits : \A j \in hits : k <= j]

token(s, i) == alt(Rules(s, i))

----------------------------------------------------------------------------
(* lexer: all_consuming(terminated(many1(token), eof))                      *)

\* eof: succeeds on an empty remaining input.
eof(s, i) == i = Len(s)

\* all_consuming: the parser's result stands if it left nothing.
all_consuming(s, i) == i = Len(s)

\* A variant of accepts: lexer as many1(token) alone, which returns Ok with
\* whatever input is left.
accepts_remainder(s, i) == i <= Len(s)

\* A variant of accepts: a non-empty prefix of the input taken for the whole,
\* all_consuming and eof left out.
accepts_prefix(s, i) == i > 0

\* What terminated(.., eof) under all_consuming accepts of many1's remaining
\* input.
accepts(s, i) == eof(s, i) /\ all_consuming(s, i)

\* A variant of many1_stops: many0, which returns Ok on an empty list too.
many0_stops(acc) == "Ok"

\* many1 when token returns Error: an error on the first call, the end of the
\* loop (Ok with what was accumulated) on a later one.
many1_stops(acc) == IF acc = <<>> THEN "Err" ELSE "Ok"

OkResult(toks) == [tag |-> "Ok", tokens |-> toks]
ErrResult == [tag |-> "Err"]
NoResult == [tag |-> "none"]

Init ==
    /\ \E n \in 0..MaxLen : input \in [1..n -> Alphabet]
    /\ pos = 0
    /\ tokens = <<>>
    /\ spans = <<>>
    /\ pc = "many1"
    /\ result = NoResult

\* One iteration of many1 in which token matches: the token is pushed and the
\* loop goes on from the remaining input.  (many1 also returns an error when
\* the match consumed nothing; every rule of token consumes a character.)
Many1Token ==
    /\ pc = "many1"
    /\ LET r == token(input, pos)
       IN  /\ r.res = "Ok"
           /\ IF r.end = pos
              THEN /\ pc' = "done"
                   /\ result' = ErrResult
                   /\ UNCHANGED <<pos, tokens, spans>>
              ELSE /\ tokens' = Append(tokens, r.out)
                   /\ spans' = Append(spans, <<pos, r.end>>)
                   /\ pos' = r.end
                   /\ UNCHANGED <<pc, result>>
    /\ UNCHANGED input

\* token returns Error: many1 returns.
Many1Error ==
    /\ pc = "many1"
    /\ token(input, pos).res = "Error"
    /\ IF many1_stops(tokens) = "Err"
       THEN pc' = "done" /\ result' = ErrResult
       ELSE pc' = "eof" /\ UNCHANGED result
    /\ UNCHANGED <<input, pos, tokens, spans>>

\* token returns Failure (the cut in double): many1, terminated and
\* all_consuming pass it on.
Many1Failure ==
    /\ pc = "many1"
    /\ token(input, pos).res = "Failure"
    /\ pc' = "done"
    /\ result' = ErrResult
    /\ UNCHANGED <<input, pos, tokens, spans>>

\* eof and all_consuming on what many1 left.
Eof ==
    /\ pc = "eof"
    /\ pc' = "done"
    /\ result' = IF accepts(input, pos) THEN OkResult(tokens) ELSE ErrResult
    /\ UNCHANGED <<input, pos, tokens, spans>>

Next == Many1Token \/ Many1Error \/ Many1Failure \/ Eof

Spec == Init /\ [][Next]_vars

----------------------------------------------------------------------------
(* Properties *)

Quote == "\""

TokenCount == Len(tokens)

\* The offsets at which token has been applied so far.
Cursors == {spans[k][1] : k \in 1..Len(spans)} \cup {pos}

RECURSIVE Concat(_)
Concat(ss) == IF ss = <<>> THEN <<>> ELSE Head(ss) \o Concat(Tail(ss))

\* The source text of the k-th match.
Lexeme(k) == Slice(input, spans[k][1], spans[k][2])

\* C1: on success the spans matched by the returned tokens, in list order,
\* are non-empty and contiguous, start at offset 0, end at the end of the
\* input, each is what token matched at its start, and their concatenation
\* is the input.
RoundTripTotality ==
    result.tag = "Ok" =>
        /\ Len(spans) = Len(result.tokens)
        /\ \A k \in 1..Len(spans) :
              /\ spans[k][1] < spans[k][2]
              /\ spans[k][1] = IF k = 1 THEN 0 ELSE spans[k - 1][2]
              /\ token(input, spans[k][1]) = Ok(spans[k][2], result.tokens[k])
        /\ (IF spans = <<>> THEN 0 ELSE spans[Len(spans)][2]) = Len(input)
        /\ Concat([k \in 1..Len(spans) |-> Lexeme(k)]) = input

RoundTripWitness ==
    /\ result.tag = "Ok"
    /\ Len(result.tokens) >= 2
    /\ \E k \in 1..Len(spans) : spans[k][2] - spans[k][1] >= 2

\* C2: when the loop stops at a cursor before the end of the input (no rule
\* matches there), lexer returns an error that carries none of the tokens
\* matched so far; nothing is returned before the loop stops; a token list is
\* returned only with the cursor at the end of the input, and it is the whole
\* list.
AtomicFailure ==
    /\ pc # "done" => result = NoResult
    /\ pc = "done" /\ pos < Len(input) =>
          /\ token(input, pos).res # "Ok"
          /\ result.tag = "Err"
          /\ DOMAIN result = {"tag"}
    /\ result.tag = "Ok" => pos = Len(input) /\ result.tokens = tokens

AtomicFailureWitness ==
    /\ pc = "done"
    /\ TokenCount >= 2
    /\ pos < Len(input)
    /\ token(input, pos).res = "Error"
    /\ result = ErrResult

\* C3: lexer on the empty string returns an error, and every successful
\* result holds at least one token.
EmptyInputFails ==
    /\ pc = "done" /\ input = <<>> => result.tag = "Err"
    /\ pc # "done" /\ input = <<>> => pos = 0 /\ tokens = <<>> /\ pc = "many1"
    /\ result.tag = "Ok" => Len(result.tokens) >= 1

EmptyInputWitness == pc = "done" /\ input = <<>> /\ result.tag = "Err"

\* C4: once token has been applied at a quote that no later quote closes,
\* lexer's result is an error, whatever was matched before; a quote at a
\* token start that is closed yields a String token, and a String token's
\* payload is the characters strictly between its two quotes, none of them a
\* quote.
UnterminatedStringFails ==
    /\ pc = "done"
       /\ (\E c \in Cursors :
              /\ At(input, c) = Quote
              /\ \A j \in (c + 2)..Len(input) : input[j] # Quote)
       => result.tag = "Err"
    /\ \A k \in 1..TokenCount :
          LET s == spans[k][1]
              e == spans[k][2]
          IN  /\ At(input, s) = Quote <=> tokens[k].kind = "String"
              /\ tokens[k].kind = "String" =>
                    /\ e >= s + 2
                    /\ input[e] = Quote
                    /\ tokens[k].text = SubSeq(input, s + 2, e - 1)
                    /\ \A j \in 1..Len(tokens[k].text) : tokens[k].text[j] # Quote

UnterminatedStringWitness ==
    /\ pc = "done"
    /\ TokenCount >= 1
    /\ At(input, pos) = Quote
    /\ \A j \in (pos + 2)..Len(input) : input[j] # Quote
    /\ result.tag = "Err"

\* The offset of the first newline at or after offset i, the length of s when
\* there is none.
NextNewline(s, i) ==
    CHOOSE j \in i..Len(s) :
        /\ j = Len(s) \/ s[j + 1] = "\n"
        /\ \A m \in (i + 1)..j : s[m] # "\n"

\* C5: at a cursor on "//" token emits a LineComment whose payload is the
\* characters after the "//" up to the next newline or the end of the input,
\* and leaves the cursor on that newline; a LineComment's payload holds no
\* newline, and the token after a LineComment, if any, is a Whitespace whose
\* text starts with a newline.
CommentBoundary ==
    /\ pc = "many1" /\ At(input, pos) = "/" /\ At(input, pos + 1) = "/" =>
          LET nl == NextNewline(input, pos + 2)
          IN  token(input, pos) =
                  Ok(nl, [kind |-> "LineComment", text |-> Slice(input, pos + 2, nl)])
    /\ \A k \in 1..TokenCount :
          tokens[k].kind = "LineComment" =>
              /\ \A j \in 1..Len(tokens[k].text) : tokens[k].text[j] # "\n"
              /\ At(input, spans[k][1]) = "/" /\ At(input, spans[k][1] + 1) = "/"
              /\ k < TokenCount =>
                    /\ tokens[k + 1].kind = "Whitespace"
                    /\ tokens[k + 1].text[1] = "\n"

CommentBoundaryWitness ==
    /\ result.tag = "Ok"
    /\ TokenCount >= 2
    /\ tokens[TokenCount - 1].kind = "LineComment"
    /\ tokens[TokenCount].kind = "Whitespace"

\* C6: an Operator token's text is 1 or 2 characters of + < = . ; a
\* 1-character Operator is emitted only when the next source character is not
\* one of them, so it is never immediately followed by another Operator;
\* "<<" gives Operator("<<") and "<<<" gives Operator("<<"), Operator("<").
OperatorGreediness ==
    /\ \A k \in 1..TokenCount :
          tokens[k].kind = "Operator" =>
              /\ Len(tokens[k].text) \in {1, 2}
              /\ \A j \in 1..Len(tokens[k].text) :
                    tokens[k].text[j] \in {"+", "<", "=", "."}
              /\ tokens[k].text = Lexeme(k)
              /\ Len(tokens[k].text) = 1 =>
                    /\ At(input, spans[k][2]) \notin {"+", "<", "=", "."}
                    /\ k < TokenCount => tokens[k + 1].kind # "Operator"
    /\ pc = "done" /\ input = <<"<", "<">> =>
          result = OkResult(<<[kind |-> "Operator", text |-> <<"<", "<">>]>>)
    /\ pc = "done" /\ input = <<"<", "<", "<">> =>
          result = OkResult(<<[kind |-> "Operator", text |-> <<"<", "<">>],
                              [kind |-> "Operator", text |-> <<"<">>]>>)

OperatorGreedinessWitness ==
    /\ result.tag = "Ok"
    /\ TokenCount = 2
    /\ tokens[1].kind = "Operator" /\ Len(tokens[1].text) = 2
    /\ tokens[2].kind = "Operator" /\ Len(tokens[2].text) = 1

\* C7: a Slash token is emitted only for a "/" that no "/" follows; at a
\* cursor on "//" the LineComment rule wins; no two Slash tokens are adjacent.
SlashVersusComment ==
    /\ pc = "many1" /\ At(input, pos) = "/" /\ At(input, pos + 1) = "/" =>
          /\ token(input, pos).res = "Ok"
          /\ token(input, pos).out.kind = "LineComment"
    /\ pc = "many1" /\ At(input, pos) = "/" /\ At(input, pos + 1) # "/" =>
          token(input, pos) = Ok(pos + 1, [kind |-> "Slash"])
    /\ \A k \in 1..TokenCount :
          tokens[k].kind = "Slash" =>
              /\ Lexeme(k) = <<"/">>
              /\ At(input, spans[k][2]) # "/"
              /\ k < TokenCount => tokens[k + 1].kind # "Slash"

SlashVersusCommentWitness ==
    /\ result.tag = "Ok"
    /\ TokenCount = 3
    /\ tokens[1].kind = "Identifier"
    /\ tokens[2].kind = "Slash"
    /\ tokens[3].kind = "Identifier"

\* The length of the run of decimal digits that starts s.
LeadingDigits(s) ==
    CHOOSE n \in 0..Len(s) :
        /\ \A k \in 1..n : s[k] \in AsciiDigit
        /\ n = Len(s) \/ s[n + 1] \notin AsciiDigit

\* One alphabetic character, then word characters.
IsWord(w) ==
    /\ w # <<>>
    /\ is_alphabetic(w[1])
    /\ \A k \in 2..Len(w) : w[k] = "_" \/ is_alphanumeric(w[k])

\* A non-empty run of decimal digits immediately followed by a word.
DigitsThenWord(s) ==
    LeadingDigits(s) >= 1 /\ IsWord(SubSeq(s, LeadingDigits(s) + 1, Len(s)))

DigitRun(s) == SubSeq(s, 1, LeadingDigits(s))
WordAfter(s) == SubSeq(s, LeadingDigits(s) + 1, Len(s))

NumberOfDigits(ds, exp) == [kind |-> "Number", value |-> Normalize(DigitsValue(ds), exp)]

NoIdentifierStartsWithDigit ==
    \A k \in 1..TokenCount :
        tokens[k].kind = "Identifier" =>
            /\ tokens[k].text # <<>>
            /\ tokens[k].text[1] \notin AsciiDigit

\* C8 as stated: every input that is a digit run followed by a word lexes to
\* exactly Number(value of the run), Identifier(the whole word), and no
\* Identifier starts with a digit.
LeadingDigitAnyWord ==
    /\ pc = "done" /\ DigitsThenWord(input) =>
          result = OkResult(<<NumberOfDigits(DigitRun(input), 0),
                              [kind |-> "Identifier", text |-> WordAfter(input)]>>)
    /\ NoIdentifierStartsWithDigit

\* C8, amended: a digit run followed by a word that does not start with e or
\* E lexes to exactly Number(value of the run), Identifier(the whole word).
\* When the word starts with e or E, that letter is read as the exponent
\* mark of the number: followed by a digit, the digits after it are the
\* exponent of the Number token, which then ends after them; followed by
\* anything else or by nothing, lexer returns an error.  No Identifier starts
\* with a digit.
LeadingDigitDisambiguation ==
    /\ pc = "done" /\ DigitsThenWord(input) =>
          LET n == LeadingDigits(input)
              w == WordAfter(input)
              x == LeadingDigits(SubSeq(w, 2, Len(w)))
          IN  IF w[1] \notin {"e", "E"}
              THEN result = OkResult(<<NumberOfDigits(DigitRun(input), 0),
                                       [kind |-> "Identifier", text |-> w]>>)
              ELSE IF x >= 1
              THEN /\ TokenCount >= 1
                   /\ tokens[1] = NumberOfDigits(DigitRun(input),
                                                 DigitsValue(SubSeq(w, 2, x + 1)))
                   /\ spans[1] = <<0, n + 1 + x>>
                   /\ TokenCount = 1 /\ result.tag = "Ok" <=> Len(w) = x + 1
              ELSE result.tag = "Err" /\ tokens = <<>>
    /\ NoIdentifierStartsWithDigit

LeadingDigitWitness ==
    /\ pc = "done"
    /\ DigitsThenWord(input)
    /\ LeadingDigits(input) >= 2
    /\ WordAfter(input)[1] \notin {"e", "E"}
    /\ result.tag = "Ok"
    /\ TokenCount = 2

\* char::is_whitespace (White_Space) restricted to the characters in use.
UnicodeWhitespace == {" ", "\t", "\n", "\r", "U+00A0", "U+2003"}

\* The space, tab, carriage return and line feed.
AsciiWhitespace == {" ", "\t", "\n", "\r"}

\* The offset after the longest run of characters of W from offset i.
RunEnd(W, s, i) ==
    CHOOSE j \in i..Len(s) :
        /\ \A k \in (i + 1)..j : s[k] \in W
        /\ j = Len(s) \/ s[j + 1] \notin W

WhitespaceRunOf(W) ==
    /\ pc = "many1" /\ At(input, pos) \in W =>
          LET e == RunEnd(W, input, pos)
          IN  token(input, pos) =
                  Ok(e, [kind |-> "Whitespace", text |-> Slice(input, pos, e)])
    /\ \A k \in 1..TokenCount :
          tokens[k].kind = "Whitespace" =>
              /\ tokens[k].text = Lexeme(k)
              /\ \A j \in 1..Len(tokens[k].text) : tokens[k].text[j] \in W
              /\ At(input, spans[k][2]) \notin W
              /\ k < TokenCount => tokens[k + 1].kind # "Whitespace"

\* C9 as stated: at a cursor on any Unicode whitespace character the
\* Whitespace rule emits one token spanning the maximal run of whitespace
\* characters, and no two Whitespace tokens are adjacent.
WhitespaceMaximalRunUnicode == WhitespaceRunOf(UnicodeWhitespace)

\* C9, amended: the whitespace characters are the space, tab, carriage return
\* and line feed only.  At a cursor on one of them the Whitespace rule emits
\* one token spanning the maximal run of them, and no two Whitespace tokens
\* are adjacent.
WhitespaceMaximalRun == WhitespaceRunOf(AsciiWhitespace)

WhitespaceWitness ==
    /\ result.tag = "Ok"
    /\ TokenCount = 2
    /\ tokens[1].kind = "Identifier"
    /\ tokens[2].kind = "Whitespace"
    /\ Len(tokens[2].text) = 2
    /\ tokens[2].text[1] # tokens[2].text[2]

\* The rules that match at cursor i.
Matching(s, i) == {k \in 1..RuleCount : Rules(s, i)[k].res = "Ok"}

====
